---- MODULE Spec2Model ----
(***************************************************************************)
(* Model of the strain gauge (load cell) driver, src/src/strain_gauge.c.   *)
(*                                                                         *)
(* The driver's globals (sg, slope, intercept, taring, calibrating and the *)
(* external read_sg flag) are the state; the main thread runs one API call *)
(* at a time, pc being its position inside the call; the timer interrupt   *)
(* that sets read_sg and the operator who changes the load are the         *)
(* environment.                                                            *)
(*                                                                         *)
(* A C float is modelled as an exact fraction <<n, d>> in lowest terms     *)
(* with d > 0, or one of the IEEE-754 specials: <<1,0>> is +inf, <<-1,0>>  *)
(* is -inf and <<0,0>> is NaN.  Rounding is not modelled.                  *)
(***************************************************************************)
EXTENDS Integers, Sequences, FiniteSets, TLC

(***************************************************************************)
(* Bounds of the model and input sets of the harness.                      *)
(***************************************************************************)
MaxWeights == 2

MaxNoise == 1

MaxCalls == 2

MaxTimes == 3

(***************************************************************************)
(* Program constants.                                                      *)
(***************************************************************************)
TARE_SAMPLES == 15

CAL_SAMPLES == 20

UINT8_MOD == 256

UINT8_MAX == 255

(***************************************************************************)
(* float arithmetic                                                        *)
(***************************************************************************)
Abs(n) == IF n < 0 THEN -n ELSE n

Sgn(n) == IF n > 0 THEN 1 ELSE IF n < 0 THEN -1 ELSE 0

Max(a, b) == IF a > b THEN a ELSE b

RECURSIVE Gcd(_, _)
Gcd(a, b) == IF b = 0 THEN a ELSE Gcd(b, a % b)

Float(n, d) ==
    IF d = 0 THEN <<Sgn(n), 0>>
    ELSE LET g == Gcd(Abs(n), Abs(d))
         IN  <<(Sgn(d) * n) \div g, Abs(d) \div g>>

F(n) == <<n, 1>>

NaN == <<0, 0>>

IsFinite(a) == a[2] # 0

FNeg(a) == <<-a[1], a[2]>>

FAdd(a, b) ==
    IF IsFinite(a) /\ IsFinite(b) THEN Float(a[1] * b[2] + b[1] * a[2], a[2] * b[2])
    ELSE IF a = NaN \/ b = NaN THEN NaN
    ELSE IF IsFinite(a) THEN b
    ELSE IF IsFinite(b) THEN a
    ELSE IF a = b THEN a ELSE NaN

FSub(a, b) == FAdd(a, FNeg(b))

FMul(a, b) == Float(a[1] * b[1], a[2] * b[2])

FDiv(a, b) ==
    IF ~IsFinite(a) /\ IsFinite(b) THEN <<a[1] * (IF b[1] < 0 THEN -1 ELSE 1), 0>>
    ELSE Float(a[1] * b[2], a[2] * b[1])

FGt0(a) == a[1] > 0


(***************************************************************************)
(* Inputs of the harness.                                                  *)
(***************************************************************************)
\* voltages the ADC can return (adc_read_voltage)
Samples == {F(-1), F(0), F(1)}

\* arguments of strain_gauge_init: <<ve, capacity, ro>>
Configs == {<<F(5), 10, F(1)>>, <<F(5), 10, F(2)>>}

\* arguments of strain_gauge_init with a voltage or a rated output that is
\* not positive
InvalidConfigs == {<<F(0), 10, F(2)>>, <<F(5), 10, F(-1)>>}

\* coefficient pairs a client hands to strain_gauge_set_equation
Equations == {<<F(1), F(0)>>, <<F(2), F(1)>>}

\* values of the known weights
Weights == {F(1), F(2)}

\* what a read of memory outside an array, or of a cell never written, can yield
Garbage == {F(0), F(3)}

\* what a sample can differ by from the voltage of the load
Disturbances == {F(0), F(1)}

\* offsets of the second run that the tare of the first run is compared with
TwinOffsets == {F(-2), F(4)}

\* what the build makes of the wait loop on the non-volatile read_sg
Builds == {"reload", "hoist", "elide"}

(***************************************************************************)
(* State                                                                   *)
(***************************************************************************)
VARIABLES
    sg,           \* StrainGauge sg: [capacity, VE, RO, offset]
    slope,        \* static float slope
    intercept,    \* static float intercept
    taring,       \* volatile bool taring
    calibrating,  \* volatile bool calibrating
    read_sg,      \* extern bool read_sg
    adc,          \* the voltage of the load, which adc_read_voltage() returns
    build,        \* how the wait loop of read_average was compiled
    pc,           \* position of the main thread
    caller,       \* who called read_average: "tare", "cal0", "cali", "client"
    times,        \* read_average: parameter
    i,            \* read_average: loop counter (uint8_t)
    sum,          \* read_average: local
    weight,       \* read_average: local
    cal,          \* strain_gauge_calibrate: parameters and locals
    equation,     \* the caller's float equation[2], until the client's next call
    se,           \* strain_gauge_set_equation: old slope and parameter b
    ret,          \* value returned to the client by the last read, until the
                  \* client's next call
    calibrated,   \* history: a call of strain_gauge_calibrate has returned
    fresh,        \* history: the timer fired since the last read of read_average
    sawTrigger,   \* history: the last wait ended on a load of read_sg that gave true
    nreads,       \* history: reads taken by the current call of read_average
    rsum,         \* history: sum of the values those reads returned
    offWrites,    \* history: writes of sg.offset by the current strain_gauge_tare
    tw,           \* second run of the tare, started with another offset
    kwMax,        \* history: largest index used on known_weights (-1: none)
    xyMax,        \* history: largest index used on x or y by strain_gauge_calibrate
    fit,          \* history: the last fit run by calibrate: its weight_cnt, the n
                  \* of the fit and the largest index the fit read
    steady,       \* history: tares completed in a row with the same samples
                  \* and the same coefficients
    last,         \* history: the call that completed last; "none" during a call
    noise,        \* history: disturbed samples of the current read_average
    isr,          \* what the last read_kgs of the interrupt context used
    divByZero,    \* history: the current or last call divided by zero in
                  \* read_average (sum/times) or in the fit (the slope)
    clog,         \* history: the rounds, pauses and fit of the current or last
                  \* strain_gauge_calibrate, in order, and the reads it took
    calls         \* history: calls the client has made

vars == <<sg, slope, intercept, taring, calibrating, read_sg, adc, build, pc,
          caller, times, i, sum, weight, cal, equation, se, ret, fresh,
          sawTrigger, nreads, rsum, offWrites, tw, kwMax, xyMax, fit, steady,
          calibrated,
          last, noise, isr, divByZero, clog, calls>>

vGauge == <<sg, slope, intercept, taring, calibrating>>

vAvg == <<caller, times, i, sum, weight>>

vCal == <<cal, equation, se>>

vTrig == <<fresh, sawTrigger>>

vReads == <<nreads, rsum, offWrites, tw>>

vIdx == <<kwMax, xyMax, fit>>

vHist == <<divByZero, clog>>


\* the client makes one more call (the first strain_gauge_init and the reads
\* are not counted)
Called == calls < MaxCalls /\ calls' = calls + 1

\* no value returned by a read is held by the client
NoRet == [num |-> F(0), den |-> F(1)]

(***************************************************************************)
(* read_kgs, read_lbs                                                      *)
(***************************************************************************)
\* line 63: kilograms = sense_voltage*(sg.capacity/(sg.VE*sg.RO))
RawKgs(v, g) == FMul(v, FDiv(F(g.capacity), FMul(g.VE, g.RO)))

\* lines 73-76: the line of best fit, with the sign of the intercept following the reading
ApplyFit(k, m, b) ==
    IF FGt0(k) THEN FAdd(FMul(m, k), b) ELSE FSub(FMul(m, k), b)

\* lines 82-85: the tare offset
ApplyOffset(k, off) ==
    IF FGt0(off) THEN FSub(k, off) ELSE FAdd(k, off)

\* read_kgs, were it to apply the offset while taring as well
read_kgs_of_KeepsOffset(v, g, m, b, cali, tar) ==
    LET kilograms == RawKgs(v, g)
    IN  IF cali THEN kilograms
        ELSE ApplyOffset(ApplyFit(kilograms, m, b), g.offset)

\* read_kgs, were it to apply the line of best fit in calibration mode as well
read_kgs_of_FitsWhileCalibrating(v, g, m, b, cali, tar) ==
    LET kilograms == RawKgs(v, g)
    IN  IF cali \/ tar THEN ApplyFit(kilograms, m, b)
        ELSE ApplyOffset(ApplyFit(kilograms, m, b), g.offset)

\* read_kgs as a function of the sample and of the globals it reads
read_kgs_of(v, g, m, b, cali, tar) ==
    LET kilograms == RawKgs(v, g)
    IN  IF cali THEN kilograms
        ELSE IF tar THEN ApplyFit(kilograms, m, b)
        ELSE ApplyOffset(ApplyFit(kilograms, m, b), g.offset)

read_kgs(v) == read_kgs_of(v, sg, slope, intercept, calibrating, taring)

\* 0.45359237
KG_PER_LB == <<45359237, 100000000>>

\* A value returned to the client is kept as a quotient num/den of two floats, so
\* that the division by 0.45359237 stays within TLC's integers.
read_lbs(v) == [num |-> read_kgs(v), den |-> KG_PER_LB]

KgsRet(k) == [num |-> k, den |-> F(1)]

(***************************************************************************)
(* Initial state: the globals as the C startup code leaves them (static    *)
(* storage is zeroed), before the client's first call.                     *)
(***************************************************************************)
EmptyArr == [k \in {} |-> F(0)]

Store(arr, k, v) == [j \in (DOMAIN arr) \cup {k} |-> IF j = k THEN v ELSE arr[j]]

\* no call of strain_gauge_calibrate is in progress
NoCalFrame ==
    [weight_cnt |-> 0, known_weights |-> <<>>, x |-> EmptyArr, y |-> EmptyArr,
     i |-> 0]

\* no call of strain_gauge_set_equation is in progress
NoSeFrame == [m_old |-> F(0), b |-> F(0)]

\* strain_gauge_calibrate has not run its fit
NoFit == [weight_cnt |-> -1, n |-> 0, maxIdx |-> -1]

\* no round of a calibration has begun
NoLog == [log |-> <<>>, reads |-> 0]

\* float equation[2], declared and not yet written
NoEquation == <<NaN, NaN>>

Init ==
    /\ sg = [capacity |-> 0, VE |-> F(0), RO |-> F(0), offset |-> F(0)]
    /\ slope = F(0)
    /\ intercept = F(0)
    /\ taring = FALSE
    /\ calibrating = FALSE
    /\ read_sg = FALSE
    /\ adc \in Samples
    /\ build \in Builds
    /\ pc = "start"
    /\ caller = "client"
    /\ times = 0
    /\ i = 0
    /\ sum = F(0)
    /\ weight = F(0)
    /\ cal = NoCalFrame
    /\ equation = NoEquation
    /\ se = NoSeFrame
    /\ ret = NoRet
    /\ fresh = FALSE
    /\ sawTrigger = FALSE
    /\ nreads = 0
    /\ rsum = F(0)
    /\ offWrites = 0
    /\ tw = [offset |-> F(0), sum |-> F(0), weight |-> F(0)]
    /\ kwMax = -1
    /\ xyMax = -1
    /\ fit = NoFit
    /\ steady = 0
    /\ calibrated = FALSE
    /\ last = "none"
    /\ noise = 0
    /\ isr = [used |-> FALSE, m |-> F(0), b |-> F(0),
              old |-> <<F(0), F(0)>>, new |-> <<F(0), F(0)>>]
    /\ divByZero = FALSE
    /\ clog = NoLog
    /\ calls = 0

(***************************************************************************)
(* Environment: the timer interrupt of main.c and the load on the cell.    *)
(***************************************************************************)
\* the timer interrupt sets read_sg
TimerISR ==
    /\ UNCHANGED calls
    /\ read_sg' = TRUE
    /\ fresh' = TRUE
    /\ UNCHANGED <<vGauge, adc, build, pc, vAvg, vCal, ret, sawTrigger, vReads,
                   vIdx, steady, last, noise, isr,
                   calibrated, vHist>>

InAverage == pc \in {"ra_wait", "ra_read", "ra_clear"}

\* the voltage changes between two calls of the client
LoadChange(v) ==
    /\ UNCHANGED calls
    /\ pc \in {"start", "idle"}
    /\ v # adc
    /\ adc' = v
    /\ steady' = 0
    /\ UNCHANGED <<vGauge, read_sg, build, pc, vAvg, vCal, ret, vTrig, vReads,
                   vIdx, last, noise, isr,
                   calibrated, vHist>>

(***************************************************************************)
(* strain_gauge_init, read_kgs, read_lbs                                   *)
(***************************************************************************)
strain_gauge_init(ve, capacity, ro) ==
    /\ IF pc = "start" THEN UNCHANGED calls ELSE Called
    /\ pc \in {"start", "idle"}
    /\ sg' = [capacity |-> capacity, VE |-> ve, RO |-> ro, offset |-> F(0)]
    /\ pc' = "idle"
    /\ last' = "init"
    /\ steady' = 0
    /\ ret' = NoRet
    /\ equation' = NoEquation
    /\ divByZero' = FALSE
    /\ clog' = NoLog
    /\ UNCHANGED <<slope, intercept, taring, calibrating, read_sg, adc, build,
                   vAvg, cal, se, vTrig, vReads, vIdx, noise, isr,
                   calibrated>>

ReadKgsCall ==
    /\ UNCHANGED calls
    /\ pc = "idle"
    /\ ret' = KgsRet(read_kgs(adc))
    /\ last' = "read_kgs"
    /\ UNCHANGED <<vGauge, read_sg, adc, build, pc, vAvg, vCal, vTrig, vReads,
                   vIdx, steady, noise, isr,
                   calibrated, vHist>>

ReadLbsCall ==
    /\ UNCHANGED calls
    /\ pc = "idle"
    /\ ret' = read_lbs(adc)
    /\ last' = "read_lbs"
    /\ UNCHANGED <<vGauge, read_sg, adc, build, pc, vAvg, vCal, vTrig, vReads,
                   vIdx, steady, noise, isr,
                   calibrated, vHist>>

(***************************************************************************)
(* read_average                                                            *)
(***************************************************************************)
\* entry of read_average(n): float sum = 0; i = 0
StartAverage(n, who) ==
    /\ times' = n
    /\ i' = 0
    /\ sum' = F(0)
    /\ caller' = who
    /\ pc' = "ra_wait"
    /\ nreads' = 0
    /\ rsum' = F(0)
    /\ noise' = 0
    /\ UNCHANGED weight

\* while(!read_sg) {} compiled as written: every iteration loads read_sg
RaWaitReload ==
    /\ UNCHANGED calls
    /\ pc = "ra_wait"
    /\ i < times
    /\ build = "reload"
    /\ read_sg
    /\ pc' = "ra_read"
    /\ sawTrigger' = TRUE
    /\ UNCHANGED <<vGauge, read_sg, adc, build, vAvg, vCal, ret, fresh, vReads,
                   vIdx, steady, last, noise, isr,
                   calibrated, vHist>>

\* while(!read_sg) {} with the load hoisted out of the loop (read_sg is not
\* volatile): the flag is loaded once at the entry of read_average; after
\* read_sg = false the compiler knows the value and the loop spins for ever
RaWaitHoist ==
    /\ UNCHANGED calls
    /\ pc = "ra_wait"
    /\ i < times
    /\ build = "hoist"
    /\ IF i = 0 /\ read_sg
       THEN pc' = "ra_read" /\ sawTrigger' = TRUE
       ELSE pc' = "ra_spin" /\ UNCHANGED sawTrigger
    /\ UNCHANGED <<vGauge, read_sg, adc, build, vAvg, vCal, ret, fresh, vReads,
                   vIdx, steady, last, noise, isr,
                   calibrated, vHist>>

\* while(!read_sg) {} removed: a loop without side effects whose condition is
\* not a constant may be assumed to terminate (C11 6.8.5p6)
RaWaitElide ==
    /\ UNCHANGED calls
    /\ pc = "ra_wait"
    /\ i < times
    /\ build = "elide"
    /\ pc' = "ra_read"
    /\ sawTrigger' = FALSE
    /\ UNCHANGED <<vGauge, read_sg, adc, build, vAvg, vCal, ret, fresh, vReads,
                   vIdx, steady, last, noise, isr,
                   calibrated, vHist>>

\* the read of the second run: same sample, same globals, its own offset
TwinRead(v) ==
    read_kgs_of(v, [sg EXCEPT !.offset = tw.offset], slope, intercept,
                calibrating, taring)

\* weight = read_kgs(); adc_read_voltage() returns the voltage of the load plus
\* a disturbance d, which is not 0 at most MaxNoise times in one averaging
RaRead(d) ==
    /\ UNCHANGED calls
    /\ pc = "ra_read"
    /\ d # F(0) => noise < MaxNoise
    /\ noise' = IF d # F(0) THEN noise + 1 ELSE noise
    /\ weight' = read_kgs(FAdd(adc, d))
    /\ pc' = "ra_clear"
    /\ fresh' = FALSE
    /\ nreads' = nreads + 1
    /\ rsum' = FAdd(rsum, read_kgs(FAdd(adc, d)))
    /\ tw' = IF caller = "tare" THEN [tw EXCEPT !.weight = TwinRead(FAdd(adc, d))]
             ELSE tw
    /\ clog' = IF caller \in {"cal0", "cali"}
               THEN [clog EXCEPT !.reads = @ + 1] ELSE clog
    /\ UNCHANGED <<vGauge, read_sg, adc, build, caller, times, i, sum, vCal, ret,
                   sawTrigger, offWrites, vIdx, steady, last, isr, calibrated,
                   divByZero>>

\* read_sg = false; sum += weight; i++
RaClear ==
    /\ UNCHANGED calls
    /\ pc = "ra_clear"
    /\ read_sg' = FALSE
    /\ sum' = FAdd(sum, weight)
    /\ i' = (i + 1) % UINT8_MOD
    /\ pc' = "ra_wait"
    /\ tw' = IF caller = "tare" THEN [tw EXCEPT !.sum = FAdd(@, tw.weight)] ELSE tw
    /\ UNCHANGED <<vGauge, adc, build, caller, times, weight, vCal, ret, vTrig,
                   nreads, rsum, offWrites, vIdx, steady, last, noise, isr,
                   calibrated, vHist>>

\* the loop of read_average has ended
AvgDone == pc = "ra_wait" /\ ~(i < times)

\* return sum/times;
AvgResult == FDiv(sum, F(times))

\* read_average returns: its locals are gone
PopAverage ==
    /\ times' = 0
    /\ i' = 0
    /\ sum' = F(0)
    /\ weight' = F(0)
    /\ caller' = "client"

\* the client calls read_average(n)
ReadAverageCall(n) ==
    /\ Called
    /\ pc = "idle"
    /\ StartAverage(n, "client")
    /\ last' = "none"
    /\ ret' = NoRet
    /\ equation' = NoEquation
    /\ divByZero' = FALSE
    /\ clog' = NoLog
    /\ UNCHANGED <<vGauge, read_sg, adc, build, cal, se, vTrig, offWrites, tw,
                   vIdx, steady, isr,
                   calibrated>>

ReadAverageRet ==
    /\ UNCHANGED calls
    /\ AvgDone
    /\ caller = "client"
    /\ ret' = KgsRet(AvgResult)
    /\ pc' = "idle"
    /\ last' = "read_average"
    /\ PopAverage
    /\ divByZero' = (divByZero \/ times = 0)
    /\ UNCHANGED <<vGauge, read_sg, adc, build, vCal, vTrig, vReads, vIdx,
                   steady, noise, isr,
                   calibrated, clog>>

(***************************************************************************)
(* strain_gauge_tare                                                       *)
(***************************************************************************)
\* taring = true; read_average(15) is entered.  The second run starts from
\* the same state with another offset.
TareCall(o) ==
    /\ Called
    /\ pc = "idle"
    /\ o # sg.offset
    /\ taring' = TRUE
    /\ StartAverage(TARE_SAMPLES, "tare")
    /\ offWrites' = 0
    /\ tw' = [offset |-> o, sum |-> F(0), weight |-> F(0)]
    /\ last' = "none"
    /\ ret' = NoRet
    /\ equation' = NoEquation
    /\ divByZero' = FALSE
    /\ clog' = NoLog
    /\ UNCHANGED <<sg, slope, intercept, calibrating, read_sg, adc, build, cal,
                   se, vTrig, vIdx, steady, isr,
                   calibrated>>

\* strain_gauge_tare, were it to store the last reading instead of the average
TareFinish_LastReading ==
    /\ UNCHANGED calls
    /\ pc = "ra_wait" /\ ~(i < times)
    /\ caller = "tare"
    /\ sg' = [sg EXCEPT !.offset = weight]
    /\ taring' = FALSE
    /\ pc' = "idle"
    /\ offWrites' = offWrites + 1
    /\ tw' = [offset |-> tw.weight, sum |-> F(0), weight |-> F(0)]
    /\ steady' = IF noise = 0 THEN (IF steady < 2 THEN steady + 1 ELSE 2) ELSE 0
    /\ last' = "tare"
    /\ times' = 0 /\ i' = 0 /\ sum' = F(0) /\ weight' = F(0) /\ caller' = "client"
    /\ divByZero' = (divByZero \/ times = 0)
    /\ UNCHANGED <<slope, intercept, calibrating, read_sg, adc, build, vCal,
                   ret, vTrig, nreads, rsum, vIdx, noise, isr,
                   calibrated, clog>>

\* read_average returns; sg.offset = tare_weight; taring = false
TareFinish ==
    /\ UNCHANGED calls
    /\ AvgDone
    /\ caller = "tare"
    /\ sg' = [sg EXCEPT !.offset = AvgResult]
    /\ taring' = FALSE
    /\ pc' = "idle"
    /\ offWrites' = offWrites + 1
    /\ tw' = [offset |-> FDiv(tw.sum, F(times)), sum |-> F(0), weight |-> F(0)]
    /\ steady' = IF noise = 0 THEN (IF steady < 2 THEN steady + 1 ELSE 2) ELSE 0
    /\ last' = "tare"
    /\ PopAverage
    /\ divByZero' = (divByZero \/ times = 0)
    /\ UNCHANGED <<slope, intercept, calibrating, read_sg, adc, build, vCal,
                   ret, vTrig, nreads, rsum, vIdx, noise, isr,
                   calibrated, clog>>

(***************************************************************************)
(* strain_gauge_calculate_equation                                         *)
(***************************************************************************)
\* the loop of lines 210-215 for one of the four sums: f[0] + ... + f[k-1]
RECURSIVE FSum(_, _)
FSum(f, k) == IF k = 0 THEN F(0) ELSE FAdd(FSum(f, k - 1), f[k - 1])

\* the function as written: n = weight_cnt + 1 in a uint8_t, the sums over
\* i < n, then m and b.  x and y are the memory the two pointers give access to.
strain_gauge_calculate_equation(weight_cnt, x, y) ==
    LET n == (weight_cnt + 1) % UINT8_MOD
        sumX == FSum(x, n)
        sumX2 == FSum([k \in 0..(n - 1) |-> FMul(x[k], x[k])], n)
        sumY == FSum(y, n)
        sumXY == FSum([k \in 0..(n - 1) |-> FMul(x[k], y[k])], n)
        den == FSub(FMul(F(n), sumX2), FMul(sumX, sumX))
        m == FDiv(FSub(FMul(F(n), sumXY), FMul(sumX, sumY)), den)
        b == FDiv(FSub(sumY, FMul(m, sumX)), F(n))
    IN  [m |-> m, b |-> b, n |-> n, den |-> den]

\* data a client passes to strain_gauge_calculate_equation itself: weight_cnt
\* known weights and arrays of weight_cnt + 1 points
Datasets ==
    { [weight_cnt |-> 1, x |-> (0 :> F(0)) @@ (1 :> F(1)),
                         y |-> (0 :> F(2)) @@ (1 :> F(5))],
      [weight_cnt |-> 2, x |-> (0 :> F(0)) @@ (1 :> F(1)) @@ (2 :> F(2)),
                         y |-> (0 :> F(0)) @@ (1 :> F(1)) @@ (2 :> F(1))],
      [weight_cnt |-> 2, x |-> (0 :> F(1)) @@ (1 :> F(1)) @@ (2 :> F(1)),
                         y |-> (0 :> F(0)) @@ (1 :> F(1)) @@ (2 :> F(2))] }

CalculateEquationCall(d) ==
    /\ Called
    /\ pc = "idle"
    /\ LET r == strain_gauge_calculate_equation(d.weight_cnt, d.x, d.y)
       IN  /\ equation' = <<r.m, r.b>>
           /\ divByZero' = (r.den = F(0))
    /\ clog' = NoLog
    /\ last' = "calculate_equation"
    /\ ret' = NoRet
    /\ UNCHANGED <<vGauge, read_sg, adc, build, pc, vAvg, cal, se, vTrig,
                   vReads, vIdx, steady, noise, isr,
                   calibrated>>

(***************************************************************************)
(* strain_gauge_calibrate                                                  *)
(***************************************************************************)
\* the lists of n known weights
WeightLists(n) == [1..n -> Weights]

\* lines 158-166: calibrating = true; the arrays x and y of weight_cnt+1
\* cells, none written yet; y[0] = 0.  The client passes a float equation[2]
\* it has just declared (README, lines 15-17).
CalibrateCall(n, kw) ==
    /\ Called
    /\ pc = "idle"
    /\ calibrating' = TRUE
    /\ cal' = [weight_cnt |-> n, known_weights |-> kw, x |-> EmptyArr,
               y |-> Store(EmptyArr, 0, F(0)), i |-> 0]
    /\ pc' = "cal_copy"
    /\ kwMax' = -1
    /\ xyMax' = 0
    /\ fit' = NoFit
    /\ steady' = 0
    /\ equation' = NoEquation
    /\ last' = "none"
    /\ ret' = NoRet
    /\ divByZero' = FALSE
    /\ clog' = NoLog
    /\ UNCHANGED <<sg, slope, intercept, taring, read_sg, adc, build, vAvg,
                   se, vTrig, vReads, noise, isr,
                   calibrated>>

\* lines 167-169: y[i+1] = known_weights[i] while i <= weight_cnt.  A store
\* past the end of y lands outside the array and is not kept in y; so the
\* value read past the end of known_weights, which only that store uses, is
\* not modelled either.
CalCopy ==
    /\ UNCHANGED calls
    /\ pc = "cal_copy"
    /\ cal.i <= cal.weight_cnt
    /\ cal' = [cal EXCEPT
                 !.y = IF cal.i + 1 <= cal.weight_cnt
                       THEN Store(@, cal.i + 1, cal.known_weights[cal.i + 1])
                       ELSE @,
                 !.i = (cal.i + 1) % UINT8_MOD]
    /\ kwMax' = Max(kwMax, cal.i)
    /\ xyMax' = Max(xyMax, cal.i + 1)
    /\ UNCHANGED <<vGauge, read_sg, adc, build, pc, vAvg, equation, se, ret,
                   vTrig, vReads, fit, steady, last, noise, isr,
                   calibrated, vHist>>

\* line 174: kilograms = read_average(20)
CalZeroCall ==
    /\ UNCHANGED calls
    /\ pc = "cal_copy"
    /\ ~(cal.i <= cal.weight_cnt)
    /\ StartAverage(CAL_SAMPLES, "cal0")
    /\ clog' = [clog EXCEPT !.log = Append(@, "round")]
    /\ UNCHANGED <<vGauge, read_sg, adc, build, vCal, ret, vTrig, offWrites, tw,
                   vIdx, steady, last, isr,
                   calibrated, divByZero>>

\* line 175: x[0] = kilograms; line 179: i = 1
CalZeroRet ==
    /\ UNCHANGED calls
    /\ AvgDone
    /\ caller = "cal0"
    /\ cal' = [cal EXCEPT !.x = Store(@, 0, AvgResult), !.i = 1]
    /\ xyMax' = Max(xyMax, 0)
    /\ pc' = "cal_loop"
    /\ PopAverage
    /\ divByZero' = (divByZero \/ times = 0)
    /\ UNCHANGED <<vGauge, read_sg, adc, build, equation, se, ret, vTrig,
                   vReads, kwMax, fit, steady, last, noise, isr,
                   calibrated, clog>>

\* strain_gauge_calibrate, were it to start a round without the pause
CalDelay_NoPause(v) ==
    /\ UNCHANGED calls
    /\ pc = "cal_loop"
    /\ cal.i <= cal.weight_cnt
    /\ adc' = v
    /\ StartAverage(CAL_SAMPLES, "cali")
    /\ clog' = [clog EXCEPT !.log = Append(@, "round")]
    /\ UNCHANGED <<vGauge, read_sg, build, vCal, ret, vTrig, offWrites, tw, vIdx,
                   steady, last, isr,
                   calibrated, divByZero>>

\* lines 183-184: delay_ms(15000), during which the operator changes the
\* load, then kilograms = read_average(20)
CalDelay(v) ==
    /\ UNCHANGED calls
    /\ pc = "cal_loop"
    /\ cal.i <= cal.weight_cnt
    /\ adc' = v
    /\ StartAverage(CAL_SAMPLES, "cali")
    /\ clog' = [clog EXCEPT !.log = @ \o <<"pause", "round">>]
    /\ UNCHANGED <<vGauge, read_sg, build, vCal, ret, vTrig, offWrites, tw, vIdx,
                   steady, last, isr,
                   calibrated, divByZero>>

\* line 185: x[i] = kilograms; i++
CalRoundRet ==
    /\ UNCHANGED calls
    /\ AvgDone
    /\ caller = "cali"
    /\ cal' = [cal EXCEPT !.x = Store(@, cal.i, AvgResult),
                          !.i = (cal.i + 1) % UINT8_MOD]
    /\ xyMax' = Max(xyMax, cal.i)
    /\ pc' = "cal_loop"
    /\ PopAverage
    /\ divByZero' = (divByZero \/ times = 0)
    /\ UNCHANGED <<vGauge, read_sg, adc, build, equation, se, ret, vTrig,
                   vReads, kwMax, fit, steady, last, noise, isr,
                   calibrated, clog>>

\* what a pointer to an array of weight_cnt+1 cells gives access to: the cells
\* written, and any value (g) in a cell past the end or never written
Memory(arr, weight_cnt, g) ==
    [k \in 0..(weight_cnt + 1) |->
        IF k <= weight_cnt /\ k \in DOMAIN arr THEN arr[k] ELSE g]

\* strain_gauge_calibrate, were it to install the fit itself
CalFit_Installs(gx, gy) ==
    /\ UNCHANGED calls
    /\ pc = "cal_loop"
    /\ ~(cal.i <= cal.weight_cnt)
    /\ LET r == strain_gauge_calculate_equation(
                    (cal.weight_cnt + 1) % UINT8_MOD,
                    Memory(cal.x, cal.weight_cnt, gx),
                    Memory(cal.y, cal.weight_cnt, gy))
       IN  /\ equation' = <<r.m, r.b>>
           /\ fit' = [weight_cnt |-> cal.weight_cnt, n |-> r.n, maxIdx |-> r.n - 1]
           /\ divByZero' = (divByZero \/ r.den = F(0))
           /\ slope' = r.m
           /\ intercept' = r.b
    /\ pc' = "idle"
    /\ last' = "calibrate"
    /\ cal' = NoCalFrame
    /\ calibrated' = TRUE
    /\ clog' = [clog EXCEPT !.log = Append(@, "fit")]
    /\ UNCHANGED <<sg, taring, calibrating, read_sg, adc, build, vAvg, se, ret, vTrig,
                   vReads, kwMax, xyMax, steady, noise, isr>>

\* line 191: strain_gauge_calculate_equation(weight_cnt+1, x, y, equation), and
\* the return of strain_gauge_calibrate
CalFit(gx, gy) ==
    /\ UNCHANGED calls
    /\ pc = "cal_loop"
    /\ ~(cal.i <= cal.weight_cnt)
    /\ LET r == strain_gauge_calculate_equation(
                    (cal.weight_cnt + 1) % UINT8_MOD,
                    Memory(cal.x, cal.weight_cnt, gx),
                    Memory(cal.y, cal.weight_cnt, gy))
       IN  /\ equation' = <<r.m, r.b>>
           /\ fit' = [weight_cnt |-> cal.weight_cnt, n |-> r.n, maxIdx |-> r.n - 1]
           /\ divByZero' = (divByZero \/ r.den = F(0))
    /\ pc' = "idle"
    /\ last' = "calibrate"
    /\ cal' = NoCalFrame
    /\ calibrated' = TRUE
    /\ clog' = [clog EXCEPT !.log = Append(@, "fit")]
    /\ UNCHANGED <<vGauge, read_sg, adc, build, vAvg, se, ret, vTrig,
                   vReads, kwMax, xyMax, steady, noise, isr>>

(***************************************************************************)
(* strain_gauge_set_equation                                               *)
(***************************************************************************)
\* line 236: slope = m
SetEquationCall(m, b) ==
    /\ Called
    /\ pc = "idle"
    /\ slope' = m
    /\ se' = [m_old |-> slope, b |-> b]
    /\ pc' = "se_b"
    /\ steady' = 0
    /\ last' = "none"
    /\ ret' = NoRet
    /\ equation' = NoEquation
    /\ divByZero' = FALSE
    /\ clog' = NoLog
    /\ UNCHANGED <<sg, intercept, taring, calibrating, read_sg, adc, build, vAvg,
                   cal, vTrig, vReads, vIdx, noise, isr,
                   calibrated>>

\* line 237: intercept = b
SetEquationB ==
    /\ UNCHANGED calls
    /\ pc = "se_b"
    /\ intercept' = se.b
    /\ pc' = "idle"
    /\ last' = "set_equation"
    /\ se' = NoSeFrame
    /\ UNCHANGED <<sg, slope, taring, calibrating, read_sg, adc, build, vAvg,
                   cal, equation, ret, vTrig, vReads, vIdx, steady, noise, isr,
                   calibrated, vHist>>

\* the README's strain_gauge_set_equation(equation[0], equation[1]) after a fit
CommitEquation ==
    /\ last \in {"calibrate", "calculate_equation"}
    /\ SetEquationCall(equation[1], equation[2])

(***************************************************************************)
(* read_kgs called from an interrupt handler                               *)
(***************************************************************************)
\* the pair of coefficients in force before the set_equation in progress, if any
OldPair == IF pc = "se_b" THEN <<se.m_old, intercept>> ELSE <<slope, intercept>>

\* the pair the set_equation in progress, if any, is installing
NewPair == IF pc = "se_b" THEN <<slope, se.b>> ELSE <<slope, intercept>>

IsrReadKgs ==
    /\ UNCHANGED calls
    /\ isr' = [used |-> ~calibrating, m |-> slope, b |-> intercept,
               old |-> OldPair, new |-> NewPair]
    /\ UNCHANGED <<vGauge, read_sg, adc, build, pc, vAvg, vCal, ret, vTrig,
                   vReads, vIdx, steady, last, noise, calibrated, vHist>>

(***************************************************************************)
(* Specifications                                                          *)
(***************************************************************************)
\* the list 1, 2, ..., n of known weights
Ramp(n) == [k \in 1..n |-> F(k)]

\* steps of read_average, with the disturbances D of its samples
AverageSteps(D) ==
    \/ RaWaitReload
    \/ RaWaitHoist
    \/ RaWaitElide
    \/ \E d \in D : RaRead(d)
    \/ RaClear

\* steps of strain_gauge_calibrate after the call, the operator choosing the
\* loads among L
CalibrateSteps(L) ==
    \/ CalCopy
    \/ CalZeroCall
    \/ CalZeroRet
    \/ \E v \in L : CalDelay(v)
    \/ CalRoundRet
    \/ \E gx \in Garbage : \E gy \in Garbage : CalFit(gx, gy)

\* The whole driver: every function of strain_gauge.h, called by one client,
\* with steady samples; during a calibration the operator puts a load on and
\* takes it off in turn.
Next ==
    \/ TimerISR
    \/ \E v \in Samples : LoadChange(v)
    \/ strain_gauge_init(F(5), 10, F(2))
    \/ ReadKgsCall
    \/ ReadLbsCall
    \/ \E n \in {0, 2} : ReadAverageCall(n)
    \/ ReadAverageRet
    \/ AverageSteps({F(0)})
    \/ TareCall(F(4))
    \/ TareFinish
    \/ \E n \in 0..MaxWeights : CalibrateCall(n, Ramp(n))
    \/ CalibrateSteps({F(cal.i % 2)})
    \/ \E d \in Datasets : CalculateEquationCall(d)
    \/ SetEquationCall(F(2), F(1))
    \/ CommitEquation
    \/ SetEquationB

Spec == Init /\ [][Next]_vars

\* Taring: init, set_equation, tare and reads, with the load changing between
\* calls and disturbed samples during the averaging.
NextTare ==
    \/ TimerISR
    \/ \E v \in Samples : LoadChange(v)
    \/ \E c \in Configs : strain_gauge_init(c[1], c[2], c[3])
    \/ ReadKgsCall
    \/ AverageSteps(Disturbances)
    \/ \E o \in TwinOffsets : TareCall(o)
    \/ TareFinish
    \/ \E e \in Equations : SetEquationCall(e[1], e[2])
    \/ SetEquationB

SpecTare == Init /\ [][NextTare]_vars

\* Calibration as in the README: init, calibrate with every list of known
\* weights and every load, set_equation with the result, reads.
NextCal ==
    \/ TimerISR
    \/ \E v \in Samples : LoadChange(v)
    \/ strain_gauge_init(F(5), 10, F(2))
    \/ ReadKgsCall
    \/ AverageSteps({F(0)})
    \/ \E n \in 0..MaxWeights : \E kw \in WeightLists(n) : CalibrateCall(n, kw)
    \/ CalibrateSteps(Samples)
    \/ CommitEquation
    \/ SetEquationB

SpecCal == Init /\ [][NextCal]_vars

\* read_kgs also called from an interrupt handler, at any point of the main thread
NextIsr ==
    \/ \E v \in Samples : LoadChange(v)
    \/ \E c \in Configs : strain_gauge_init(c[1], c[2], c[3])
    \/ ReadKgsCall
    \/ \E e \in Equations : SetEquationCall(e[1], e[2])
    \/ SetEquationB
    \/ IsrReadKgs

SpecIsr == Init /\ [][NextIsr]_vars

\* a step of the main thread inside read_average called by the client
AverageStep ==
    \/ AverageSteps({F(0)})
    \/ ReadAverageRet

\* the wait loop of read_average can be left, or was removed
WaitPasses == pc = "ra_wait" /\ i < times /\ (build = "reload" => read_sg)

\* ENABLED <<AverageStep>>_vars, written out
AverageStepEnabled ==
    \/ pc \in {"ra_read", "ra_clear"}
    \/ WaitPasses
    \/ AvgDone /\ caller = "client"

NextAvgLive ==
    \/ TimerISR
    \/ strain_gauge_init(F(5), 10, F(2))
    \/ \E n \in 1..MaxTimes : ReadAverageCall(n)
    \/ AverageStep

\* read_average to its end: the timer keeps firing and the processor keeps
\* executing the main thread (weak fairness of AverageStep)
SpecAvgLive ==
    /\ Init /\ [][NextAvgLive]_vars
    /\ WF_vars(TimerISR)
    /\ ([]<>(~AverageStepEnabled) \/ []<><<AverageStep>>_vars)

\* a step of the main thread inside strain_gauge_calibrate, the load left as
\* it is
CalibrateStep ==
    \/ AverageSteps({F(0)})
    \/ CalibrateSteps({adc})

\* ENABLED <<CalibrateStep>>_vars, written out
CalibrateStepEnabled ==
    \/ pc \in {"ra_read", "ra_clear", "cal_copy", "cal_loop"}
    \/ WaitPasses
    \/ AvgDone /\ caller \in {"cal0", "cali"}

\* the counts of known weights include the largest a uint8_t holds
NextCalLive ==
    \/ TimerISR
    \/ strain_gauge_init(F(5), 10, F(2))
    \/ \E n \in {0, 1, UINT8_MAX} : CalibrateCall(n, [k \in 1..n |-> F(1)])
    \/ CalibrateStep

\* strain_gauge_calibrate to its end: the timer keeps firing and the processor
\* keeps executing the main thread (weak fairness of CalibrateStep)
SpecCalLive ==
    /\ Init /\ [][NextCalLive]_vars
    /\ WF_vars(TimerISR)
    /\ ([]<>(~CalibrateStepEnabled) \/ []<><<CalibrateStep>>_vars)

\* Initialisation with valid and invalid configurations, and the reads that
\* follow.
NextInit ==
    \/ \E v \in Samples : LoadChange(v)
    \/ \E c \in Configs \cup InvalidConfigs : strain_gauge_init(c[1], c[2], c[3])
    \/ ReadKgsCall
    \/ ReadLbsCall
    \/ \E e \in Equations : SetEquationCall(e[1], e[2])
    \/ SetEquationB

SpecInit == Init /\ [][NextInit]_vars

(***************************************************************************)
(* Properties                                                              *)
(***************************************************************************)
\* strain_gauge_calibrate is running
InCalibrate ==
    \/ pc \in {"cal_copy", "cal_loop"}
    \/ caller \in {"cal0", "cali"}

\* strain_gauge_tare is running
InTare == caller = "tare"

FAbs(a) == <<Abs(a[1]), a[2]>>

\* the reading after the line of best fit, before the offset
Corrected == ApplyFit(RawKgs(adc, sg), slope, intercept)

\* C1: when strain_gauge_calibrate has returned, the calibrating flag is
\* false, so that the reads that follow apply the coefficients and the offset.
C1_CalibrateExitsCalibrationMode ==
    (pc = "idle" /\ calibrated) => ~calibrating

\* C2: while strain_gauge_calibrate builds its dataset, y[0] = 0 and
\* y[i] = known_weights[i-1] for the cells written, every index used on
\* known_weights is within 0..N-1 and every index used on x and y within 0..N.
C2_DatasetIndicesInBounds ==
    InCalibrate =>
        /\ cal.y[0] = F(0)
        /\ \A k \in (DOMAIN cal.y) \ {0} : cal.y[k] = cal.known_weights[k]
        /\ kwMax <= cal.weight_cnt - 1
        /\ xyMax <= cal.weight_cnt

\* C3: the fit at the end of strain_gauge_calibrate with N known weights uses
\* n = N+1 and reads no cell of x or y beyond index N.
C3_FitOverCollectedPoints ==
    fit.weight_cnt >= 0 =>
        /\ fit.n = fit.weight_cnt + 1
        /\ fit.maxIdx <= fit.weight_cnt

\* C4: outside taring and calibration mode read_kgs returns corrected - offset
\* when offset > 0 and corrected + abs(offset) when offset <= 0.
C4_OffsetApplied ==
    (pc = "idle" /\ ~taring /\ ~calibrating) =>
        read_kgs(adc) = IF FGt0(sg.offset) THEN FSub(Corrected, sg.offset)
                        ELSE FAdd(Corrected, FAbs(sg.offset))

\* C5: after one tare, or two in a row, under an unchanged sample and
\* unchanged coefficients, the next read_kgs in idle mode returns 0.
C5_TareZeroesReading ==
    (pc = "idle" /\ steady >= 1 /\ ~taring /\ ~calibrating) =>
        read_kgs(adc) = F(0)

\* C6: strain_gauge_tare keeps taring true during its reads and writes
\* sg.offset only at the end; when it has returned it has taken exactly 15
\* reads, has written sg.offset once, with the average of the 15 readings,
\* and taring is false.
C6_TareProtocol ==
    /\ (InTare /\ pc \in {"ra_wait", "ra_read", "ra_clear", "ra_spin"}) =>
           (taring /\ offWrites = 0 /\ nreads <= 15)
    /\ (pc = "idle" /\ last = "tare") =>
           /\ ~taring
           /\ nreads = 15
           /\ offWrites = 1
           /\ sg.offset = FDiv(rsum, F(15))

\* a tare has returned whose samples changed while it was averaging
C6_Witness ==
    /\ pc = "idle"
    /\ last = "tare"
    /\ noise = 1
    /\ sg.offset # F(0)
    /\ sg.offset # Corrected

\* C7: the offset strain_gauge_tare stores does not depend on the offset held
\* before: a second run from the same state but for sg.offset, given the same
\* samples, sums the same readings and ends with the same offset.
C7_TareIgnoresOldOffset ==
    /\ (InTare /\ pc \in {"ra_wait", "ra_read", "ra_clear", "ra_spin"}) =>
           (tw.sum = sum /\ (pc = "ra_clear" => tw.weight = weight))
    /\ (pc = "idle" /\ last = "tare") => tw.offset = sg.offset

\* a tare has returned, in both runs, with an offset that neither run began with
C7_Witness ==
    /\ pc = "idle"
    /\ last = "tare"
    /\ tw.offset = sg.offset
    /\ sg.offset \notin (TwinOffsets \cup {F(0)})

\* C8: every read taken by read_average follows a load of read_sg that gave
\* true, and the timer has fired since the previous read.
C8_NoSampleCountedTwice ==
    pc = "ra_read" => (sawTrigger /\ fresh)

\* C9: a read_kgs that runs in an interrupt handler while
\* strain_gauge_set_equation is in progress uses the old slope with the old
\* intercept or the new slope with the new intercept.
C9_CoefficientsReplacedAtomically ==
    isr.used => <<isr.m, isr.b>> \in {isr.old, isr.new}

\* a step of strain_gauge_set_equation
SetEquationStep ==
    \/ pc = "idle" /\ pc' = "se_b" /\ intercept' = intercept
    \/ pc = "se_b" /\ pc' = "idle" /\ slope' = slope

\* C10: only strain_gauge_set_equation changes slope and intercept; the other
\* functions, strain_gauge_calibrate among them, leave both unchanged.
C10_OnlySetEquationChangesCoefficients ==
    [][(slope' # slope \/ intercept' # intercept) => SetEquationStep]_vars

\* strain_gauge_calibrate has returned a finite fit that is not the stored pair
C10_Witness ==
    /\ pc = "idle"
    /\ last = "calibrate"
    /\ IsFinite(equation[1])
    /\ IsFinite(equation[2])
    /\ equation # <<slope, intercept>>

\* C11: with the default coefficients (slope 0, intercept 0) and offset 0,
\* in idle mode, read_kgs returns the raw kilograms of every sample.
C11_DefaultCoefficientsNoCorrection ==
    (pc = "idle" /\ slope = F(0) /\ intercept = F(0) /\ sg.offset = F(0)
         /\ ~taring /\ ~calibrating) =>
        \A v \in Samples : read_kgs(v) = RawKgs(v, sg)

\* C12: while calibrating is true read_kgs returns the raw kilograms of every
\* sample, whatever slope, intercept, offset and taring are, and every reading
\* that strain_gauge_calibrate averages is the raw kilograms of the load.
C12_RawWhileCalibrating ==
    /\ calibrating => \A v \in Samples : read_kgs(v) = RawKgs(v, sg)
    /\ (InCalibrate /\ pc = "ra_clear") => weight = RawKgs(adc, sg)

\* a round of a calibration has taken a reading that the coefficients in
\* force would have changed
C12_Witness ==
    /\ InCalibrate
    /\ pc = "ra_clear"
    /\ calibrating
    /\ weight = RawKgs(adc, sg)
    /\ ApplyFit(weight, slope, intercept) # weight
    /\ slope # F(0)

\* C13: when the timer keeps firing, every call read_average(n) with n >= 1
\* returns, after exactly n reads.
C13_ReadAverageReturns ==
    \A n \in 1..MaxTimes :
        (caller = "client" /\ pc = "ra_wait" /\ times = n)
            ~> (pc = "idle" /\ last = "read_average" /\ nreads = n)

\* C14: read_average(0) does not perform the division sum/times with
\* times = 0: no call of read_average that took no read has divided by zero.
C14_AverageOfZeroRejected ==
    (pc = "idle" /\ last = "read_average" /\ nreads = 0) => ~divByZero

\* C18: when the timer keeps firing and the wait loop is compiled as written,
\* every call of strain_gauge_calibrate returns, for each weight_cnt of a
\* uint8_t, 255 included.
C18_CalibrateTerminates ==
    (build = "reload" /\ pc = "cal_copy") ~> (pc = "idle" /\ last = "calibrate")

\* C15: no fit that has returned divided by a zero denominator
\* n*sumX2 - sumX*sumX: data whose x values are all the same are rejected
\* before the division.
C15_DegenerateFitRejected ==
    (pc = "idle" /\ last \in {"calibrate", "calculate_equation"}) => ~divByZero

\* C16: after strain_gauge_init, sg.VE and sg.RO are positive, so that read_kgs
\* does not divide by zero, and a strain_gauge_init that has just returned has
\* left the offset at 0.
C16_InitRejectsInvalidConfiguration ==
    pc # "start" =>
        /\ FGt0(sg.VE)
        /\ FGt0(sg.RO)
        /\ last = "init" => sg.offset = F(0)

\* the order of a calibration with N known weights: round, then N times pause
\* and round, then the fit
ExpectedLog(N) ==
    [k \in 1..(2 * N + 2) |->
        IF k = 2 * N + 2 THEN "fit" ELSE IF k % 2 = 1 THEN "round" ELSE "pause"]

\* s is the beginning of t
IsPrefix(s1, s2) == Len(s1) <= Len(s2) /\ SubSeq(s2, 1, Len(s1)) = s1

\* averaging rounds begun so far by the calibration
Rounds == Cardinality({k \in DOMAIN clog.log : clog.log[k] = "round"})

\* C17: strain_gauge_calibrate with N known weights begins with a round of 20
\* reads, then alternates a pause and a round of 20 reads, and runs the fit
\* last: when it returns it has made N+1 rounds, N pauses and 20*(N+1) reads.
C17_CalibrationSequence ==
    /\ InCalibrate =>
           /\ IsPrefix(clog.log, ExpectedLog(cal.weight_cnt))
           /\ clog.reads <= CAL_SAMPLES * Rounds
           /\ clog.reads >= CAL_SAMPLES * (Rounds - 1)
           /\ (pc = "cal_loop" => clog.reads = CAL_SAMPLES * Rounds)
    /\ (pc = "idle" /\ last = "calibrate") =>
           /\ clog.log = ExpectedLog(fit.weight_cnt)
           /\ clog.reads = CAL_SAMPLES * (fit.weight_cnt + 1)

\* a calibration with all MaxWeights known weights has returned
C17_Witness ==
    /\ pc = "idle"
    /\ last = "calibrate"
    /\ fit.weight_cnt = MaxWeights
    /\ Len(clog.log) = 2 * MaxWeights + 2
    /\ clog.reads = CAL_SAMPLES * (MaxWeights + 1)

\* C19: taring and calibrating are never both true, and both are false
\* whenever no call of strain_gauge_tare or strain_gauge_calibrate is in
\* progress.
C19_ExactlyOneMode ==
    /\ ~(taring /\ calibrating)
    /\ pc = "idle" => (~taring /\ ~calibrating)

====
